---------------------------- MODULE Spec2Model ----------------------------
(***************************************************************************)
(* Langevin-dynamics simulator: the driver (LangevinSimulation), the       *)
(* boundary policies, the force model, the Euler integrator, the           *)
(* temperature observable, the LAMMPS dump writer and the configuration    *)
(* start-up path, as a state machine.  Spec is one run of a simulation,    *)
(* SpecRerun repeated runs of one simulation, SpecBoundary the boundary    *)
(* policies alone, SpecLibrary the library functions called directly and   *)
(* SpecConfig the start-up from a configuration file.                      *)
(*                                                                         *)
(* Numbers.  The program computes on numpy float64 arrays.  The model      *)
(* keeps the shape of binary floating point and scales its size down: a    *)
(* number is an integer on a grid of spacing 1 that has at most            *)
(* MantissaBits significant bits, every arithmetic result is rounded to    *)
(* the nearest such number (ties to even), results beyond the largest      *)
(* finite number become Inf, and NaN is a value of its own that no         *)
(* comparison accepts.  Physical constants are 1 in the model's units.     *)
(***************************************************************************)
EXTENDS Integers, Sequences, FiniteSets, TLC

VARIABLES
    pc,          \* position of the caller: which call or loop step is next
    args,        \* arguments of LangevinSimulation.__init__
    attrs,       \* names of the attributes the simulation object has been given
    boundary,    \* class of self.boundary
    pos,         \* self.pos  [particle -> [axis -> number]]
    vels,        \* self.vels [particle -> [axis -> number]]
    force,       \* local 'force' of step()
    trajectory,  \* self.trajectory: [time, temperature, kinetic_energy]
    runargs,     \* arguments of run()
    step,        \* loop variable of run()
    writer,      \* local 'writer' of run(): TRUE when a LAMMPSWriter exists
    file,        \* the dump file on disk: [exists, old, frames]
    exc,         \* the exception that ended the call, "none" when none
    calls,       \* how often each collaborator was called: force, euler, boundary, step
    pos0,        \* positions handed to the last boundary/integrator call
    vels0,       \* velocities handed to the last force/boundary call
    config,      \* the configuration dictionary of run_from_config
    ret          \* what the last call of a library function returned

vars == << pc, args, attrs, boundary, pos, vels, force, trajectory, runargs,
           step, writer, file, exc, calls, pos0, vels0, config, ret >>

---------------------------------------------------------------------------
(* Floating point, scaled down *)

MantissaBits == 5

MaxExponent == 2

RECURSIVE Pow2(_)
Pow2(n) ==
    IF n <= 0 THEN 1 ELSE 2 * Pow2(n - 1)

\* the value every result of magnitude beyond the largest finite number becomes
Inf ==
    Pow2(MantissaBits + MaxExponent)

NaN ==
    Inf + 1

MaxFinite ==
    (Pow2(MantissaBits) - 1) * Pow2(MaxExponent)

IsNaN(x) ==
    x = NaN

IsInf(x) ==
    x = Inf \/ x = -Inf

IsFinite(x) ==
    ~IsNaN(x) /\ ~IsInf(x)

Sgn(x) ==
    IF x < 0 THEN -1 ELSE IF x > 0 THEN 1 ELSE 0

Mag(x) ==
    IF x < 0 THEN -x ELSE x

\* exponent of the grid a magnitude lies on: 0 below 2^MantissaBits
RECURSIVE Expo(_, _)
Expo(a, e) ==
    IF a < Pow2(MantissaBits + e) THEN e ELSE Expo(a, e + 1)

\* the representable number nearest to n/d (d > 0), ties to the even mantissa
RoundRat(n, d) ==
    LET a   == Mag(n)
        q0  == a \div d
        q   == Pow2(Expo(q0, 0))
        lo  == (q0 \div q) * q
        rem == a - lo * d
        r   == IF 2 * rem < q * d THEN lo
               ELSE IF 2 * rem > q * d THEN lo + q
               ELSE IF (lo \div q) % 2 = 0 THEN lo ELSE lo + q
    IN  IF r >= Inf THEN Sgn(n) * Inf ELSE Sgn(n) * r

fl(x) ==
    RoundRat(x, 1)

IsFloat(x) ==
    IsNaN(x) \/ IsInf(x) \/ (Mag(x) <= MaxFinite /\ fl(x) = x)

Neg(a) ==
    IF IsNaN(a) THEN NaN ELSE -a

Abs(a) ==
    IF IsNaN(a) THEN NaN ELSE Mag(a)

Add(a, b) ==
    IF IsNaN(a) \/ IsNaN(b) THEN NaN
    ELSE IF IsInf(a) THEN (IF IsInf(b) /\ b # a THEN NaN ELSE a)
    ELSE IF IsInf(b) THEN b
    ELSE fl(a + b)

Sub(a, b) ==
    Add(a, Neg(b))

Mul(a, b) ==
    IF IsNaN(a) \/ IsNaN(b) THEN NaN
    ELSE IF IsInf(a) \/ IsInf(b)
         THEN (IF a = 0 \/ b = 0 THEN NaN ELSE Sgn(a) * Sgn(b) * Inf)
    ELSE fl(a * b)

Div(a, b) ==
    IF IsNaN(a) \/ IsNaN(b) THEN NaN
    ELSE IF IsInf(a) THEN (IF IsInf(b) THEN NaN
                           ELSE IF b < 0 THEN -a ELSE a)
    ELSE IF IsInf(b) THEN 0
    ELSE IF b = 0 THEN (IF a = 0 THEN NaN ELSE Sgn(a) * Inf)
    ELSE RoundRat(Sgn(b) * a, Mag(b))

Sqrt(a) ==
    IF IsNaN(a) \/ a < 0 THEN NaN
    ELSE IF IsInf(a) THEN Inf
    ELSE fl(CHOOSE r \in 0..a :
               /\ r = 0 \/ (2 * r - 1) * (2 * r - 1) < 4 * a
               /\ 4 * a < (2 * r + 1) * (2 * r + 1))

\* comparisons: every comparison with NaN is false
Le(a, b) ==
    ~IsNaN(a) /\ ~IsNaN(b) /\ a <= b

Ge(a, b) ==
    ~IsNaN(a) /\ ~IsNaN(b) /\ a >= b

Lt(a, b) ==
    ~IsNaN(a) /\ ~IsNaN(b) /\ a < b

\* numpy's float remainder: fmod, then the divisor is added when the signs differ
Mod(a, b) ==
    IF IsNaN(a) \/ IsNaN(b) \/ IsInf(a) \/ b = 0 THEN NaN
    ELSE LET m == IF IsInf(b) THEN a ELSE Sgn(a) * (Mag(a) % Mag(b))
         IN  IF m # 0 /\ ((b < 0) # (m < 0)) THEN Add(m, b) ELSE m

---------------------------------------------------------------------------
(* Arrays: [particle -> [axis -> number]]; a box is a sequence of <<min, max>> *)

Particles(a) ==
    DOMAIN a

BoxMin(box, i) ==
    box[i][1]

BoxMax(box, i) ==
    box[i][2]

---------------------------------------------------------------------------
(* boundary.py *)

\* a reflection that flips the sign of the velocity instead of forcing it
ReflectOneNoAbs(p, v, lo, hi) ==
    LET lower == Le(p, lo)
        v1    == IF lower THEN Neg(v) ELSE v
        p1    == IF lower THEN lo ELSE p
        upper == Ge(p1, hi)
    IN  [pos |-> IF upper THEN hi ELSE p1,
         vel |-> IF upper THEN Neg(v1) ELSE v1]

\* a reflection whose upper branch is skipped when the lower branch was taken
ReflectOneLowerWins(p, v, lo, hi) ==
    IF Le(p, lo) THEN [pos |-> lo, vel |-> Abs(v)]
    ELSE IF Ge(p, hi) THEN [pos |-> hi, vel |-> Neg(Abs(v))]
    ELSE [pos |-> p, vel |-> v]

\* one element of ReflectiveBoundary.apply: the lower mask is taken and applied,
\* then the upper mask is taken from the position the lower branch left
ReflectOne(p, v, lo, hi) ==
    LET lower == Le(p, lo)
        v1    == IF lower THEN Abs(v) ELSE v
        p1    == IF lower THEN lo ELSE p
        upper == Ge(p1, hi)
    IN  [pos |-> IF upper THEN hi ELSE p1,
         vel |-> IF upper THEN Neg(Abs(v1)) ELSE v1]

ReflectiveApply(box, p, v) ==
    [pos  |-> [n \in Particles(p) |-> [i \in 1..Len(box) |->
                 ReflectOne(p[n][i], v[n][i], BoxMin(box, i), BoxMax(box, i)).pos]],
     vels |-> [n \in Particles(p) |-> [i \in 1..Len(box) |->
                 ReflectOne(p[n][i], v[n][i], BoxMin(box, i), BoxMax(box, i)).vel]]]

\* one element of PeriodicBoundary.apply
PeriodicOne(p, lo, hi) ==
    LET box_length == Sub(hi, lo)
    IN  Add(lo, Mod(Sub(p, lo), box_length))

PeriodicApply(box, p, v) ==
    [pos  |-> [n \in Particles(p) |-> [i \in 1..Len(box) |->
                 PeriodicOne(p[n][i], BoxMin(box, i), BoxMax(box, i))]],
     vels |-> v]

BoundaryApply(cls, box, p, v) ==
    IF cls = "ReflectiveBoundary" THEN ReflectiveApply(box, p, v)
    ELSE PeriodicApply(box, p, v)

\* str.lower() on a name spelled as a sequence of characters
UpperCase ==
    << "A", "B", "C", "D", "E", "F", "G", "H", "I", "J", "K", "L", "M",
       "N", "O", "P", "Q", "R", "S", "T", "U", "V", "W", "X", "Y", "Z" >>

LowerCase ==
    << "a", "b", "c", "d", "e", "f", "g", "h", "i", "j", "k", "l", "m",
       "n", "o", "p", "q", "r", "s", "t", "u", "v", "w", "x", "y", "z" >>

LowerChar(c) ==
    IF \E k \in 1..26 : UpperCase[k] = c
    THEN LowerCase[CHOOSE k \in 1..26 : UpperCase[k] = c]
    ELSE c

Lower(name) ==
    [k \in 1..Len(name) |-> LowerChar(name[k])]

\* the dictionary boundary_types of create_boundary, in insertion order
boundary_types ==
    << [key |-> << "r", "e", "f", "l", "e", "c", "t", "i", "v", "e" >>,
        cls |-> "ReflectiveBoundary"],
       [key |-> << "p", "e", "r", "i", "o", "d", "i", "c" >>,
        cls |-> "PeriodicBoundary"] >>

Keys(d) ==
    [k \in 1..Len(d) |-> d[k].key]

\* an exception: its class, its message, and for create_boundary's message the name
\* it quotes and the names it lists
NoException ==
    [type |-> "none", msg |-> "", given |-> << >>, available |-> << >>]

Raised(type, msg) ==
    [type |-> type, msg |-> msg, given |-> << >>, available |-> << >>]

\* a factory that looks the name up as given, without .lower()
create_boundary_case_sensitive(boundary_type, box) ==
    IF ~\E k \in 1..Len(boundary_types) : boundary_types[k].key = boundary_type
    THEN [cls |-> "none",
          exc |-> [type      |-> "ValueError",
                   msg       |-> "Unknown boundary type: {given}. Available types: {available}",
                   given     |-> boundary_type,
                   available |-> Keys(boundary_types)]]
    ELSE [cls |-> boundary_types[CHOOSE k \in 1..Len(boundary_types) :
                                   boundary_types[k].key = boundary_type].cls,
          exc |-> NoException]

\* create_boundary: the class made, or the ValueError raised with its message parts
create_boundary(boundary_type, box) ==
    IF ~\E k \in 1..Len(boundary_types) : boundary_types[k].key = Lower(boundary_type)
    THEN [cls |-> "none",
          exc |-> [type      |-> "ValueError",
                   msg       |-> "Unknown boundary type: {given}. Available types: {available}",
                   given     |-> boundary_type,
                   available |-> Keys(boundary_types)]]
    ELSE [cls |-> boundary_types[CHOOSE k \in 1..Len(boundary_types) :
                                   boundary_types[k].key = Lower(boundary_type)].cls,
          exc |-> NoException]

---------------------------------------------------------------------------
(* constants.py, in the model's units *)

AVOGADRO == 1

BOLTZMANN == 1

---------------------------------------------------------------------------
(* numpy reductions *)

\* np.sum of a sequence of numbers: added left to right, each sum rounded
RECURSIVE SumTo(_, _)
SumTo(xs, k) ==
    IF k = 0 THEN 0 ELSE Add(SumTo(xs, k - 1), xs[k])

NpSum(xs) ==
    SumTo(xs, Len(xs))

\* column i of an array as a sequence over the particles
Column(a, natoms, i) ==
    [n \in 1..natoms |-> a[n][i]]

\* np.mean(a, axis=0)[i]
MeanAxis0(a, natoms, i) ==
    Div(NpSum(Column(a, natoms, i)), natoms)

\* an array flattened row by row
Flat(a, natoms, ndims) ==
    [k \in 1..(natoms * ndims) |-> a[((k - 1) \div ndims) + 1][((k - 1) % ndims) + 1]]

---------------------------------------------------------------------------
(* forces.py *)

compute_langevin_force(mass, v, temperature, relaxation_time, dt, randn) ==
    LET friction_force(n, i) == Div(Neg(Mul(mass[n], v[n][i])), relaxation_time)
        sigma(n) == Sqrt(Div(Mul(Mul(Mul(2, mass[n]), temperature), BOLTZMANN),
                             Mul(relaxation_time, dt)))
        random_force(n, i) == Mul(randn[n][i], sigma(n))
    IN  [n \in DOMAIN v |-> [i \in DOMAIN v[n] |->
            Add(friction_force(n, i), random_force(n, i))]]

---------------------------------------------------------------------------
(* integrators.py *)

\* a forward Euler step that moves the positions with the updated velocities
euler_integrate_updated_velocity(p, v, f, mass, dt) ==
    LET new_v == [n \in DOMAIN v |-> [i \in DOMAIN v[n] |->
                     Add(v[n][i], Div(Mul(f[n][i], dt), mass[n]))]]
    IN  [pos  |-> [n \in DOMAIN p |-> [i \in DOMAIN p[n] |->
                     Add(p[n][i], Mul(new_v[n][i], dt))]],
         vels |-> new_v]

euler_integrate(p, v, f, mass, dt) ==
    [pos  |-> [n \in DOMAIN p |-> [i \in DOMAIN p[n] |->
                 Add(p[n][i], Mul(v[n][i], dt))]],
     vels |-> [n \in DOMAIN v |-> [i \in DOMAIN v[n] |->
                 Add(v[n][i], Div(Mul(f[n][i], dt), mass[n]))]]]

---------------------------------------------------------------------------
(* utils/analysis.py *)

compute_temperature(mass, v, natoms, ndims) ==
    LET v_cm(i)  == MeanAxis0(v, natoms, i)
        v_rel    == [n \in 1..natoms |-> [i \in 1..ndims |-> Sub(v[n][i], v_cm(i))]]
        weighted == [n \in 1..natoms |-> [i \in 1..ndims |->
                        Mul(mass[n], Mul(v_rel[n][i], v_rel[n][i]))]]
        ke       == Div(NpSum(Flat(weighted, natoms, ndims)), 2)
    IN  Div(Mul(2, ke), Mul(ndims * natoms, BOLTZMANN))

\* compute_total_momentum(mass, vels)[i]
compute_total_momentum(mass, v, natoms, i) ==
    NpSum([n \in 1..natoms |-> Mul(mass[n], v[n][i])])

---------------------------------------------------------------------------
(* io/lammps_writer.py *)

\* '{val:e}': the number to seven significant decimal digits (ties to even);
\* nan and inf are written as such
RECURSIVE DecimalGrid(_, _)
DecimalGrid(a, g) ==
    IF a < 10000000 * g THEN g ELSE DecimalGrid(a, 10 * g)

FormatE(x) ==
    IF IsNaN(x) \/ IsInf(x) THEN x
    ELSE LET a   == Mag(x)
             g   == DecimalGrid(a, 1)
             lo  == (a \div g) * g
             rem == a - lo
             r   == IF 2 * rem < g THEN lo
                    ELSE IF 2 * rem > g THEN lo + g
                    ELSE IF (lo \div g) % 2 = 0 THEN lo ELSE lo + g
         IN  Sgn(x) * r

\* the block write_frame appends: header values, then one row per atom
Frame(timestep, natoms, box, radius, p, v) ==
    [timestep |-> timestep,
     natoms   |-> natoms,
     box      |-> box,
     atoms    |-> [n \in 1..natoms |->
                     [id     |-> n,
                      radius |-> FormatE(radius[n]),
                      pos    |-> [i \in DOMAIN p[n] |-> FormatE(p[n][i])],
                      v      |-> [i \in DOMAIN v[n] |-> FormatE(v[n][i])]]]]

\* the path of the output file: whether a file exists there, whether it holds
\* content from before the run, the frames appended to it, and whether run()
\* removed a file from the path
NoFile ==
    [exists |-> FALSE, old |-> FALSE, frames |-> << >>, removed |-> FALSE]

write_frame(f, frame) ==
    [exists |-> TRUE, old |-> f.exists /\ f.old, frames |-> Append(f.frames, frame),
     removed |-> f.removed]

---------------------------------------------------------------------------
(* simulation.py: LangevinSimulation *)

ProgressDivisor == 10

MaxShort == 3

MaxSteps == 10

MaxDump == 2

NoTrajectory ==
    [kind |-> "none", time |-> << >>, temperature |-> << >>, kinetic_energy |-> << >>]

NoRun ==
    [nsteps |-> 0, output_file |-> "None", dump_frequency |-> 0, verbose |-> FALSE]

NoCalls ==
    [run |-> 0, step |-> 0, force |-> 0, euler |-> 0, boundary |-> 0]

BoundaryNames ==
    { << "r", "e", "f", "l", "e", "c", "t", "i", "v", "e" >>,
      << "P", "E", "R", "I", "O", "D", "I", "C" >>,
      << "f", "i", "x", "e", "d" >>,
      << >> }

Boxes ==
    { << <<0, 4>> >>, << <<2, 2>> >>, << <<0, 4>>, <<-2, 1>> >> }

\* the argument tuples __init__ is called with: at most two coordinates in all,
\* and the thermostat either the working one (temperature 2, dt 1) or off it in
\* one parameter; dt = 3 is three relaxation times, where forward Euler diverges
\* (explored for one particle on one axis)
CtorArgs ==
    { a \in [natoms          : {-1, 0, 1, 2},
             mass            : {1},
             box             : Boxes,
             temperature     : {-1, 0, 2},
             dt              : {0, 1, 3},
             relaxation_time : {1},
             boundary_type   : BoundaryNames,
             radius          : {1}] :
        /\ a.natoms * Len(a.box) <= 2
        /\ a.temperature = 2 \/ a.dt = 1
        /\ a.dt = 3 => (a.natoms = 1 /\ Len(a.box) = 1) }

\* the argument tuples run() is called with: short runs with every option, and
\* verbose runs long enough for progress reports
RunArgs ==
    [nsteps         : 0..MaxShort,
     output_file    : {"None"},
     dump_frequency : {100},
     verbose        : BOOLEAN]
    \cup
    [nsteps         : 0..MaxShort,
     output_file    : {"traj.dump"},
     dump_frequency : 0..MaxDump,
     verbose        : BOOLEAN]
    \cup
    [nsteps         : ProgressDivisor..MaxSteps,
     output_file    : {"None"},
     dump_frequency : {100},
     verbose        : {TRUE}]

\* draws of np.random.randn
RandnSet ==
    {-1, 1}

\* draws of np.random.rand, each a fraction <<numerator, denominator>> in [0, 1)
RandSet ==
    { <<0, 1>>, <<1, 2>> }

\* the attributes __init__ has assigned when it reaches a given line
AttrsBeforeMass ==
    {"natoms", "mass_per_particle"}

AttrsBeforeBoundary ==
    AttrsBeforeMass \cup {"mass", "box", "ndims", "temperature", "dt",
                          "relaxation_time", "radius"}

AttrsAll ==
    AttrsBeforeBoundary \cup {"boundary", "pos", "vels", "trajectory"}

\* self.mass
MassArray(a) ==
    [n \in 1..a.natoms |-> Mul(1, Div(a.mass, AVOGADRO))]

RadiusArray(a) ==
    [n \in 1..a.natoms |-> Mul(1, a.radius)]

\* _initialize_system: rand holds the draws of np.random.rand, randn those of
\* np.random.randn
InitialPos(a, rand) ==
    [n \in 1..a.natoms |-> [i \in 1..Len(a.box) |->
        Add(BoxMin(a.box, i),
            RoundRat(Sub(BoxMax(a.box, i), BoxMin(a.box, i)) * rand[n][i][1],
                     rand[n][i][2]))]]

\* initial velocities whose mean is left in
InitialVelsWithDrift(a, randn) ==
    [n \in 1..a.natoms |-> [i \in 1..Len(a.box) |-> randn[n][i]]]

InitialVels(a, randn) ==
    [n \in 1..a.natoms |-> [i \in 1..Len(a.box) |->
        Sub(randn[n][i], MeanAxis0(randn, a.natoms, i))]]

\* __init__ as a whole
Construct ==
    /\ pc = "new"
    /\ \E rand  \in [1..args.natoms -> [1..Len(args.box) -> RandSet]],
          randn \in [1..args.natoms -> [1..Len(args.box) -> RandnSet]] :
          LET made == create_boundary(args.boundary_type, args.box)
          IN  IF args.natoms < 0
              THEN \* np.ones(natoms) raises
                   /\ exc' = Raised("ValueError", "negative dimensions are not allowed")
                   /\ attrs' = AttrsBeforeMass
                   /\ pc' = "raised"
                   /\ UNCHANGED << boundary, pos, vels, trajectory >>
              ELSE IF made.exc.type # "none"
              THEN /\ exc' = made.exc
                   /\ attrs' = AttrsBeforeBoundary
                   /\ pc' = "raised"
                   /\ UNCHANGED << boundary, pos, vels, trajectory >>
              ELSE /\ boundary' = made.cls
                   /\ pos' = InitialPos(args, rand)
                   /\ vels' = InitialVels(args, randn)
                   /\ trajectory' = [kind |-> "list", time |-> << >>,
                                     temperature |-> << >>, kinetic_energy |-> << >>]
                   /\ attrs' = AttrsAll
                   /\ pc' = "constructed"
                   /\ UNCHANGED exc
    /\ UNCHANGED << args, force, runargs, step, writer, file, calls, pos0, vels0, config, ret >>

\* 'if output_file:'
Truthy(output_file) ==
    output_file \notin {"None", ""}

\* a step() that applies the boundary before it integrates
StepBodyBoundaryFirst ==
    << "force", "boundary", "integrate" >>

\* the statements of step(), in the order they are written
StepBody ==
    << "force", "integrate", "boundary" >>

\* the statements of one iteration of run()'s loop, step() first
LoopBody ==
    StepBody \o << "observe", "dump", "progress" >>

\* the statement after statement p of the loop body; "next" ends the iteration
After(p) ==
    LET k == CHOOSE j \in 1..Len(LoopBody) : LoopBody[j] = p
    IN  IF k < Len(LoopBody) THEN LoopBody[k + 1] ELSE "next"

\* run() without the removal: an existing output file is left in place
KeepIfExists(f) ==
    f

\* run(): 'if os.path.exists(output_file): os.remove(output_file)'
RemoveIfExists(f) ==
    [exists |-> FALSE, old |-> FALSE, frames |-> << >>, removed |-> f.exists]

\* run(): the writer set-up, up to the first evaluation of the loop condition
RunBeginWith(ra) ==
    /\ runargs' = ra
    /\ writer' = Truthy(ra.output_file)
    /\ file' = IF Truthy(ra.output_file)
               THEN RemoveIfExists(file)
               ELSE file
    /\ IF ra.nsteps >= 1
       THEN /\ step' = 1
            /\ pc' = LoopBody[1]
            /\ calls' = [calls EXCEPT !.run = @ + 1, !.step = @ + 1]
       ELSE /\ step' = 0
            /\ pc' = "return"
            /\ calls' = [calls EXCEPT !.run = @ + 1]
    /\ UNCHANGED << args, attrs, boundary, pos, vels, force, trajectory, exc,
                    pos0, vels0, config, ret >>

\* a caller runs the simulation it constructed; long runs are explored for at
\* most one particle on one axis, systems of more than that for the empty
\* run and the longest short run, and a file already at the output path for
\* the runs that name the path
RunBegin ==
    /\ pc = "constructed"
    /\ \E ra \in RunArgs :
          /\ ra.nsteps > MaxShort => args.natoms * Len(args.box) <= 1
          /\ file.exists => Truthy(ra.output_file)
          /\ args.natoms * Len(args.box) > 1 => ra.nsteps \in {0, MaxShort}
          /\ RunBeginWith(ra)

\* step(): compute_langevin_force
ComputeForce ==
    /\ pc = "force"
    /\ \E randn \in [1..args.natoms -> [1..Len(args.box) -> RandnSet]] :
          force' = compute_langevin_force(MassArray(args), vels, args.temperature,
                                          args.relaxation_time, args.dt, randn)
    /\ vels0' = vels
    /\ calls' = [calls EXCEPT !.force = @ + 1]
    /\ pc' = After("force")
    /\ UNCHANGED << args, attrs, boundary, pos, vels, trajectory, runargs, step,
                    writer, file, exc, pos0, config, ret >>

\* step(): euler_integrate
Integrate ==
    /\ pc = "integrate"
    /\ LET new == euler_integrate(pos, vels, force, MassArray(args), args.dt)
       IN  pos' = new.pos /\ vels' = new.vels
    /\ calls' = [calls EXCEPT !.euler = @ + 1]
    /\ pc' = After("integrate")
    /\ UNCHANGED << args, attrs, boundary, force, trajectory, runargs, step,
                    writer, file, exc, pos0, vels0, config, ret >>

\* step(): self.boundary.apply
ApplyBoundary ==
    /\ pc = "boundary"
    /\ LET new == BoundaryApply(boundary, args.box, pos, vels)
       IN  pos' = new.pos /\ vels' = new.vels
    /\ pos0' = pos
    /\ vels0' = vels
    /\ calls' = [calls EXCEPT !.boundary = @ + 1]
    /\ pc' = After("boundary")
    /\ UNCHANGED << args, attrs, boundary, force, trajectory, runargs, step,
                    writer, file, exc, config, ret >>

\* a time stamp counted from step 0
current_time_from_zero(s, dt) ==
    Mul(s - 1, dt)

\* 'current_time = step * self.dt'
current_time(s, dt) ==
    Mul(s, dt)

\* run(): the observables are computed and appended to the trajectory
Observe ==
    /\ pc = "observe"
    /\ LET current_temp == compute_temperature(MassArray(args), vels,
                                               args.natoms, Len(args.box))
       IN  IF trajectory.kind = "list"
           THEN /\ trajectory' = [trajectory EXCEPT
                                     !.time = Append(@, current_time(step, args.dt)),
                                     !.temperature = Append(@, current_temp)]
                /\ pc' = After("observe")
                /\ UNCHANGED exc
           ELSE \* self.trajectory['time'] is an ndarray
                /\ exc' = Raised("AttributeError",
                                 "'numpy.ndarray' object has no attribute 'append'")
                /\ pc' = "raised"
                /\ UNCHANGED trajectory
    /\ UNCHANGED << args, attrs, boundary, pos, vels, force, runargs, step,
                    writer, file, calls, pos0, vels0, config, ret >>

\* a dump condition on a 0-based step counter
dump_due_from_zero(w, s, dump_frequency) ==
    w /\ (s - 1) % dump_frequency = 0

\* 'writer and step % dump_frequency == 0', for dump_frequency # 0
dump_due(w, s, dump_frequency) ==
    w /\ s % dump_frequency = 0

\* run(): 'if writer and step % dump_frequency == 0: writer.write_frame(...)'
Dump ==
    /\ pc = "dump"
    /\ IF writer /\ runargs.dump_frequency = 0
       THEN /\ exc' = Raised("ZeroDivisionError", "step % dump_frequency")
            /\ pc' = "raised"
            /\ UNCHANGED file
       ELSE /\ file' = IF dump_due(writer, step, runargs.dump_frequency)
                       THEN write_frame(file, Frame(step, args.natoms, args.box,
                                                    RadiusArray(args), pos, vels))
                       ELSE file
            /\ pc' = After("dump")
            /\ UNCHANGED exc
    /\ UNCHANGED << args, attrs, boundary, pos, vels, force, trajectory, runargs,
                    step, writer, calls, pos0, vels0, config, ret >>

\* run(): 'if verbose and step % (nsteps // 10) == 0: print(...)', then the loop
\* takes its next value or ends
Progress ==
    /\ pc = "progress"
    /\ IF runargs.verbose /\ runargs.nsteps \div ProgressDivisor = 0
       THEN /\ exc' = Raised("ZeroDivisionError", "step % (nsteps // 10)")
            /\ pc' = "raised"
            /\ UNCHANGED << step, calls >>
       ELSE /\ IF step < runargs.nsteps
               THEN /\ step' = step + 1
                    /\ pc' = LoopBody[1]
                    /\ calls' = [calls EXCEPT !.step = @ + 1]
               ELSE /\ pc' = "return"
                    /\ UNCHANGED << step, calls >>
            /\ UNCHANGED exc
    /\ UNCHANGED << args, attrs, boundary, pos, vels, force, trajectory, runargs,
                    writer, file, pos0, vels0, config, ret >>

\* run() without the conversion: the trajectory lists are returned as they are
ReturnKeepsLists ==
    /\ pc = "return"
    /\ ret' = trajectory
    /\ pc' = "done"
    /\ UNCHANGED << args, attrs, boundary, pos, vels, force, trajectory, runargs,
                    step, writer, file, exc, calls, pos0, vels0, config >>

\* run(): the trajectory lists become arrays and are returned
Return ==
    /\ pc = "return"
    /\ trajectory' = [trajectory EXCEPT !.kind = "ndarray"]
    /\ ret' = trajectory'
    /\ pc' = "done"
    /\ UNCHANGED << args, attrs, boundary, pos, vels, force, runargs, step,
                    writer, file, exc, calls, pos0, vels0, config >>

\* before __init__ is called; a file may already be at the output path (explored
\* for at most one particle on one axis)
Init ==
    /\ pc = "new"
    /\ args \in CtorArgs
    /\ attrs = {}
    /\ boundary = "none"
    /\ pos = << >>
    /\ vels = << >>
    /\ force = << >>
    /\ trajectory = NoTrajectory
    /\ runargs = NoRun
    /\ step = 0
    /\ writer = FALSE
    /\ file \in {NoFile, [NoFile EXCEPT !.exists = TRUE, !.old = TRUE]}
    /\ file.exists => args.natoms * Len(args.box) <= 1
    /\ exc = NoException
    /\ calls = NoCalls
    /\ pos0 = << >>
    /\ vels0 = << >>
    /\ config = << >>
    /\ ret = << >>

Next ==
    \/ Construct
    \/ RunBegin
    \/ ComputeForce
    \/ Integrate
    \/ ApplyBoundary
    \/ Observe
    \/ Dump
    \/ Progress
    \/ Return

Spec ==
    Init /\ [][Next]_vars

---------------------------------------------------------------------------
(* Properties of the driver, checked under Spec *)

InLoop ==
    pc \in {"force", "integrate", "boundary", "observe", "dump", "progress"}

\* the loop iterations whose samples have been appended
Sampled ==
    IF pc \in {"force", "integrate", "boundary", "observe"} THEN step - 1 ELSE step

Last(seq) ==
    seq[Len(seq)]

\* C1: after k iterations of run()'s loop the trajectory holds k time samples and
\* k temperature samples, nsteps of each when run() returns; the k-th time sample
\* is k*dt, so consecutive samples are dt apart and, for a positive dt, strictly
\* increasing.
C1_TrajectoryGrowsWithSteps ==
    /\ Len(trajectory.time) = Len(trajectory.temperature)
    /\ InLoop => Len(trajectory.time) = Sampled
    /\ pc \in {"return", "done"} => Len(trajectory.time) = runargs.nsteps
    /\ \A k \in 1..Len(trajectory.time) : trajectory.time[k] = k * args.dt
    /\ \A k \in 1..(Len(trajectory.time) - 1) :
          /\ trajectory.time[k + 1] - trajectory.time[k] = args.dt
          /\ args.dt > 0 => trajectory.time[k] < trajectory.time[k + 1]

C1_Witness ==
    /\ pc = "done"
    /\ args.natoms = 1
    /\ runargs.nsteps = MaxSteps
    /\ args.dt > 0
    /\ Len(trajectory.time) = MaxSteps

\* C2: step() computes the force once, then integrates once, then applies the
\* boundary once, in that order: the force is computed from the velocities the
\* integrator is then given, run() has called step() once per iteration (nsteps
\* times when it returns), and the temperature appended in an iteration is that of
\* the velocities the boundary left.
C2_StepOrder ==
    /\ pc = "force" =>
          /\ calls.force = calls.step - 1
          /\ calls.euler = calls.step - 1
          /\ calls.boundary = calls.step - 1
    /\ pc = "integrate" =>
          /\ calls.force = calls.step
          /\ calls.euler = calls.step - 1
          /\ calls.boundary = calls.step - 1
          /\ vels0 = vels
    /\ pc = "boundary" =>
          /\ calls.force = calls.step
          /\ calls.euler = calls.step
          /\ calls.boundary = calls.step - 1
    /\ pc \in {"observe", "dump", "progress"} =>
          /\ calls.force = calls.step
          /\ calls.euler = calls.step
          /\ calls.boundary = calls.step
    /\ InLoop => calls.step = step
    /\ pc \in {"return", "done"} =>
          /\ calls.step = runargs.nsteps
          /\ calls.force = runargs.nsteps
          /\ calls.euler = runargs.nsteps
          /\ calls.boundary = runargs.nsteps
    /\ pc \in {"dump", "progress"} =>
          Last(trajectory.temperature) =
             compute_temperature(MassArray(args), vels, args.natoms, Len(args.box))

C2_Witness ==
    /\ pc = "done"
    /\ runargs.nsteps = MaxShort
    /\ args.natoms = 2
    /\ \E k \in 1..MaxShort : trajectory.temperature[k] > 0

BoxIsValid(box) ==
    \A i \in 1..Len(box) : BoxMin(box, i) < BoxMax(box, i)

\* the states between two calls of step(): after construction or a completed step
BetweenSteps ==
    pc \in {"constructed", "force", "observe", "dump", "progress", "return", "done"}

\* C3: with the reflective boundary and min < max on every axis, after construction
\* and after every completed step() every position lies in [min, max] on every axis
\* (stated here for the arguments the specification allows: natoms > 0, dt > 0,
\* temperature >= 0).
C3_PositionsStayInBox ==
    (/\ BetweenSteps
     /\ boundary = "ReflectiveBoundary"
     /\ BoxIsValid(args.box)
     /\ args.natoms > 0 /\ args.dt > 0 /\ args.temperature >= 0) =>
        \A n \in 1..args.natoms : \A i \in 1..Len(args.box) :
            /\ Le(BoxMin(args.box, i), pos[n][i])
            /\ Le(pos[n][i], BoxMax(args.box, i))

\* the valid-parameter simulation of C3's case has run into a non-number
C3_Reached ==
    /\ pc = "observe"
    /\ boundary = "ReflectiveBoundary"
    /\ BoxIsValid(args.box)
    /\ args.natoms > 0 /\ args.dt > 0 /\ args.temperature >= 0
    /\ \E n \in 1..args.natoms : \E i \in 1..Len(args.box) : IsNaN(pos[n][i])

\* the loop steps whose dump statement has been executed
Dumped ==
    IF pc \in {"progress", "return", "done"} THEN step ELSE step - 1

\* the steps 1..k that are multiples of dump_frequency, in increasing order
RECURSIVE MultiplesUpTo(_, _)
MultiplesUpTo(k, dump_frequency) ==
    IF k <= 0 THEN << >>
    ELSE IF k % dump_frequency = 0
         THEN Append(MultiplesUpTo(k - 1, dump_frequency), k)
         ELSE MultiplesUpTo(k - 1, dump_frequency)

\* C6: with an output file, the frames in the file are those of the loop steps
\* s = 1..k executed so far with s % dump_frequency = 0, in increasing order of s
\* (none for step 0), all of 1..nsteps when run() returns; the frame of step s holds
\* timestep s and the positions and velocities after step s, as '{val:e}' writes
\* them; without an output file no frame is written.
C6_FramesAtMultiples ==
    (InLoop \/ pc \in {"return", "done"}) =>
        /\ ~writer => file.frames = << >>
        /\ (writer /\ runargs.dump_frequency > 0) =>
              /\ [k \in 1..Len(file.frames) |-> file.frames[k].timestep]
                    = MultiplesUpTo(Dumped, runargs.dump_frequency)
              /\ pc \in {"return", "done"} => Dumped = runargs.nsteps
              /\ (pc = "progress" /\ step % runargs.dump_frequency = 0) =>
                    /\ file.exists
                    /\ \A n \in 1..args.natoms :
                          \A i \in 1..Len(args.box) :
                             /\ Last(file.frames).atoms[n].pos[i] = FormatE(pos[n][i])
                             /\ Last(file.frames).atoms[n].v[i] = FormatE(vels[n][i])

C6_Witness ==
    /\ pc = "done"
    /\ writer
    /\ runargs.dump_frequency = MaxDump
    /\ runargs.nsteps = MaxShort
    /\ Len(file.frames) = MaxShort \div MaxDump
    /\ args.natoms = 2

\* the four conditions the specification puts on the constructor's arguments
ArgsValid(a) ==
    /\ a.natoms > 0
    /\ a.dt > 0
    /\ a.temperature >= 0
    /\ BoxIsValid(a.box)

\* C7: run(nsteps, verbose=True) with 1 <= nsteps < 10, on a simulation of valid
\* arguments, never raises a division by zero from the progress condition.
C7_ProgressGuarded ==
    (/\ pc # "new" /\ ArgsValid(args)
     /\ runargs.verbose /\ 1 <= runargs.nsteps /\ runargs.nsteps < ProgressDivisor) =>
        ~(pc = "raised" /\ exc = Raised("ZeroDivisionError", "step % (nsteps // 10)"))

\* C8: a constructor call with natoms <= 0, dt <= 0, temperature < 0 or a box axis
\* with min >= max ends in an error and leaves no object with particle state.
C8_InvalidArgsRejected ==
    (pc # "new" /\ ~ArgsValid(args)) =>
        /\ pc = "raised"
        /\ "pos" \notin attrs
        /\ "vels" \notin attrs

Reflective ==
    << "r", "e", "f", "l", "e", "c", "t", "i", "v", "e" >>

Periodic ==
    << "p", "e", "r", "i", "o", "d", "i", "c" >>

\* C9: in the constructor a boundary name that is, compared without case, neither
\* 'reflective' nor 'periodic' ends in the configuration error (a ValueError) whose
\* message lists both valid names, before positions, velocities and the trajectory
\* exist; a recognized name gives the boundary of that name.
C9_UnknownBoundaryRejected ==
    (pc # "new" /\ args.natoms >= 0) =>
        /\ Lower(args.boundary_type) \notin {Reflective, Periodic} =>
              /\ pc = "raised"
              /\ exc.type = "ValueError"
              /\ exc.available = << Reflective, Periodic >>
              /\ attrs \cap {"boundary", "pos", "vels", "trajectory"} = {}
              /\ pos = << >> /\ vels = << >> /\ trajectory.kind = "none"
        /\ Lower(args.boundary_type) = Reflective =>
              boundary = "ReflectiveBoundary" /\ "pos" \in attrs
        /\ Lower(args.boundary_type) = Periodic =>
              boundary = "PeriodicBoundary" /\ "pos" \in attrs

C9_Witness ==
    /\ pc = "raised"
    /\ args.natoms >= 0
    /\ Lower(args.boundary_type) \notin {Reflective, Periodic}
    /\ exc.type = "ValueError"

---------------------------------------------------------------------------
(* The boundary policies on their own: a boundary object is made for a box and   *)
(* apply() is called once on arrays of the caller, as tests/test_boundary.py does *)

BoundaryCells == 2

\* a box maximum large enough for the grid just below it to be coarser than 1
WideBoxMax ==
    Pow2(MantissaBits + 1)

BoundaryBoxes ==
    { << <<0, WideBoxMax>> >>, << <<-2, 6>> >>, << <<0, 8>>, <<-2, 6>> >>,
      << <<3, 3>> >>, << <<6, -2>> >> }

BoundaryPositions ==
    { x \in {-40, -9, -2, -1, 0, 3, 6, 7, 8, WideBoxMax, 100} : IsFloat(x) }

BoundaryVelocities ==
    {-3, 0, 2}

InitBoundary ==
    /\ pc = "boundary"
    /\ boundary \in {"ReflectiveBoundary", "PeriodicBoundary"}
    /\ \E box \in BoundaryBoxes : \E natoms \in 1..BoundaryCells :
          /\ natoms * Len(box) <= BoundaryCells
          /\ args = [box |-> box, natoms |-> natoms]
          /\ pos \in [1..natoms -> [1..Len(box) -> BoundaryPositions]]
          /\ vels \in [1..natoms -> [1..Len(box) -> BoundaryVelocities]]
    /\ attrs = {}
    /\ force = << >>
    /\ trajectory = NoTrajectory
    /\ runargs = NoRun
    /\ step = 0
    /\ writer = FALSE
    /\ file = NoFile
    /\ exc = NoException
    /\ calls = NoCalls
    /\ pos0 = << >>
    /\ vels0 = << >>
    /\ config = << >>
    /\ ret = << >>

SpecBoundary ==
    InitBoundary /\ [][ApplyBoundary]_vars

Applied ==
    calls.boundary = 1

\* C4: ReflectiveBoundary.apply on a box with min < max, per particle and axis:
\* an input position <= min comes out as min with the velocity component |v|
\* (>= 0); an input position >= max comes out as max with the component -|v| (<= 0).
C4_ReflectiveClamps ==
    (Applied /\ boundary = "ReflectiveBoundary" /\ BoxIsValid(args.box)) =>
        \A n \in 1..args.natoms : \A i \in 1..Len(args.box) :
            /\ pos0[n][i] <= BoxMin(args.box, i) =>
                  /\ pos[n][i] = BoxMin(args.box, i)
                  /\ vels[n][i] = Mag(vels0[n][i])
                  /\ vels[n][i] >= 0
            /\ pos0[n][i] >= BoxMax(args.box, i) =>
                  /\ pos[n][i] = BoxMax(args.box, i)
                  /\ vels[n][i] = -Mag(vels0[n][i])
                  /\ vels[n][i] <= 0

C4_Witness ==
    /\ Applied
    /\ boundary = "ReflectiveBoundary"
    /\ args.natoms = 2
    /\ pos0[1][1] < BoxMin(args.box, 1) /\ vels0[1][1] < 0 /\ vels[1][1] > 0
    /\ pos0[2][1] > BoxMax(args.box, 1) /\ vels0[2][1] > 0 /\ vels[2][1] < 0

\* C5: PeriodicBoundary.apply on a box with min < max: every output position lies
\* in [min, max) and differs from the input by a whole number of box lengths; the
\* velocities are unchanged.
C5_PeriodicWraps ==
    (Applied /\ boundary = "PeriodicBoundary" /\ BoxIsValid(args.box)) =>
        /\ \A n \in 1..args.natoms : \A i \in 1..Len(args.box) :
              /\ BoxMin(args.box, i) <= pos[n][i]
              /\ pos[n][i] < BoxMax(args.box, i)
              /\ (pos[n][i] - pos0[n][i]) % (BoxMax(args.box, i) - BoxMin(args.box, i)) = 0
        /\ vels = vels0

---------------------------------------------------------------------------
(* examples/hydrogen_gas.py: run_from_config, starting after load_config has     *)
(* returned the dictionary of the file                                           *)

HYDROGEN_RADIUS == 1

RequiredKeys ==
    {"natoms", "mass", "temperature", "dt", "relaxation_time", "nsteps", "box"}

OptionalKeys ==
    {"boundary_type", "output_file", "dump_frequency", "plot_temperature"}

\* the keyword arguments of LangevinSimulation(...) that are read with
\* config[...], in the order they are evaluated
CtorKeys ==
    << "natoms", "mass", "box", "temperature", "dt", "relaxation_time" >>

\* the values a configuration file gives its keys
ConfigValues ==
    [natoms           : {1},
     mass             : {1},
     temperature      : {0},
     dt               : {1},
     relaxation_time  : {1},
     nsteps           : {MaxShort, ProgressDivisor},
     box              : { << <<0, 4>> >> },
     boundary_type    : { << "p", "e", "r", "i", "o", "d", "i", "c" >> },
     output_file      : {"traj.dump"},
     dump_frequency   : {MaxDump},
     plot_temperature : {FALSE}]

\* the dictionaries load_config returns: any subset of the keys may be present
Configs ==
    { [k \in present |-> full[k]] :
        present \in SUBSET (RequiredKeys \cup OptionalKeys), full \in ConfigValues }

\* dict.get(key, default)
Get(d, key, default) ==
    IF key \in DOMAIN d THEN d[key] ELSE default

\* os.path.dirname of the paths that occur here, which have no directory part
Dirname(path) ==
    CASE path = "traj.dump" -> ""
      [] path = "outputs"   -> ""

\* the first key of CtorKeys, from position i on, that the dictionary lacks;
\* "" when none is missing
FirstMissing(d, i) ==
    LET missing == { j \in i..Len(CtorKeys) : CtorKeys[j] \notin DOMAIN d }
    IN  IF missing = {} THEN ""
        ELSE CtorKeys[CHOOSE j \in missing : \A m \in missing : j <= m]

\* evaluation of the arguments of LangevinSimulation(...)
RunFromConfig ==
    /\ pc = "run_from_config"
    /\ LET key == FirstMissing(config, 1)
       IN  IF key # ""
           THEN /\ exc' = Raised("KeyError", key)
                /\ pc' = "raised"
                /\ UNCHANGED args
           ELSE /\ args' = [natoms          |-> config["natoms"],
                            mass            |-> config["mass"],
                            box             |-> config["box"],
                            temperature     |-> config["temperature"],
                            dt              |-> config["dt"],
                            relaxation_time |-> config["relaxation_time"],
                            boundary_type   |-> Get(config, "boundary_type",
                                                   << "r", "e", "f", "l", "e", "c", "t", "i", "v", "e" >>),
                            radius          |-> Get(config, "radius", HYDROGEN_RADIUS)]
                /\ pc' = "new"
                /\ UNCHANGED exc
    /\ UNCHANGED << attrs, boundary, pos, vels, force, trajectory, runargs, step,
                    writer, file, calls, pos0, vels0, config, ret >>

\* evaluation of the arguments of sim.run(...) and the start of the run
RunFromConfigRun ==
    /\ pc = "constructed"
    /\ IF "nsteps" \notin DOMAIN config
       THEN /\ exc' = Raised("KeyError", "nsteps")
            /\ pc' = "raised"
            /\ UNCHANGED << args, attrs, boundary, pos, vels, force, trajectory,
                            runargs, step, writer, file, calls, pos0, vels0, config, ret >>
       ELSE /\ RunBeginWith([nsteps         |-> config["nsteps"],
                             output_file    |-> Get(config, "output_file", "None"),
                             dump_frequency |-> Get(config, "dump_frequency", 100),
                             verbose        |-> TRUE])

\* 'if config.get('plot_temperature', True):' after run has returned;
\* os.path.exists("") is false and os.makedirs("") raises
PlotTemperature ==
    /\ pc = "done"
    /\ IF Get(config, "plot_temperature", TRUE)
       THEN LET output_dir == Dirname(Get(config, "output_file", "outputs"))
            IN  IF output_dir = ""
                THEN /\ exc' = Raised("FileNotFoundError", output_dir)
                     /\ pc' = "raised"
                ELSE /\ pc' = "returned"
                     /\ UNCHANGED exc
       ELSE /\ pc' = "returned"
            /\ UNCHANGED exc
    /\ UNCHANGED << args, attrs, boundary, pos, vels, force, trajectory, runargs,
                    step, writer, file, calls, pos0, vels0, config, ret >>

InitConfig ==
    /\ pc = "run_from_config"
    /\ config \in Configs
    /\ args = << >>
    /\ attrs = {}
    /\ boundary = "none"
    /\ pos = << >>
    /\ vels = << >>
    /\ force = << >>
    /\ trajectory = NoTrajectory
    /\ runargs = NoRun
    /\ step = 0
    /\ writer = FALSE
    /\ file = NoFile
    /\ exc = NoException
    /\ calls = NoCalls
    /\ pos0 = << >>
    /\ vels0 = << >>
    /\ ret = << >>

NextConfig ==
    \/ RunFromConfig
    \/ Construct
    \/ RunFromConfigRun
    \/ ComputeForce
    \/ Integrate
    \/ ApplyBoundary
    \/ Observe
    \/ Dump
    \/ Progress
    \/ Return
    \/ PlotTemperature

SpecConfig ==
    InitConfig /\ [][NextConfig]_vars

\* C10: when the configuration lacks one of the required keys, run_from_config
\* fails before any simulation state exists: no boundary object, no particle
\* arrays and no trajectory have been constructed, whichever key is missing.
C10_MissingKeyFailsEarly ==
    (RequiredKeys \ DOMAIN config # {}) =>
        /\ boundary = "none"
        /\ pos = << >>
        /\ vels = << >>
        /\ trajectory = NoTrajectory
        /\ attrs \cap {"boundary", "pos", "vels", "trajectory"} = {}

---------------------------------------------------------------------------
(* The library functions called on their own, as the tests call them: each      *)
(* behaviour is one call of one function on arrays of the caller                *)

LibraryCells == 2

LibraryValues ==
    {-2, 0, 1, 3}

\* the arrays of shape (natoms, ndims) with values of a set
Arrays(natoms, ndims, values) ==
    [1..natoms -> [1..ndims -> values]]

LibraryShapes ==
    { s \in (1..LibraryCells) \X (1..LibraryCells) : s[1] * s[2] <= LibraryCells }

Zeros(natoms, ndims) ==
    [n \in 1..natoms |-> [i \in 1..ndims |-> 0]]

\* a Lennard-Jones force that is silently zero
compute_lennard_jones_force_zero(p, epsilon, sigma, cutoff) ==
    [ret |-> [n \in DOMAIN p |-> [i \in DOMAIN p[n] |-> 0]], exc |-> NoException]

\* compute_lennard_jones_force: what it returns and what it raises
compute_lennard_jones_force(p, epsilon, sigma, cutoff) ==
    [ret |-> << >>,
     exc |-> Raised("NotImplementedError", "Lennard-Jones forces not yet implemented")]

\* velocity_verlet_integrate: the arrays as it leaves them, and what it raises
velocity_verlet_integrate(p, v, force_func, mass, dt) ==
    [pos |-> p, vels |-> v,
     exc |-> Raised("NotImplementedError", "Velocity Verlet not yet implemented")]

\* the state of a caller about to call a function; after the call pc is
\* "after_" and the function, and exc holds what the call raised
Caller(at) ==
    /\ pc = at
    /\ attrs = {}
    /\ boundary = "none"
    /\ trajectory = NoTrajectory
    /\ runargs = NoRun
    /\ step = 0
    /\ writer = FALSE
    /\ file = NoFile
    /\ exc = NoException
    /\ calls = NoCalls
    /\ pos0 = << >>
    /\ vels0 = << >>
    /\ config = << >>
    /\ ret = << >>

InitLennardJones ==
    /\ Caller("call_lennard_jones")
    /\ \E s \in LibraryShapes : pos \in Arrays(s[1], s[2], LibraryValues)
    /\ args \in [epsilon : {0, 1}, sigma : {0, 1}, cutoff : {0, 3}]
    /\ vels = << >>
    /\ force = << >>

InitVelocityVerlet ==
    /\ Caller("call_velocity_verlet")
    /\ \E s \in LibraryShapes :
          /\ pos \in Arrays(s[1], s[2], {0, 3})
          /\ vels \in Arrays(s[1], s[2], {-2, 1})
          /\ args \in [mass : [1..s[1] -> {1}], dt : {0, 1},
                       force_func : {"compute_lennard_jones_force"}]
    /\ force = << >>

\* a call of compute_lennard_jones_force
LennardJones ==
    /\ pc = "call_lennard_jones"
    /\ LET out == compute_lennard_jones_force(pos, args.epsilon, args.sigma, args.cutoff)
       IN  /\ ret' = out.ret
           /\ exc' = out.exc
           /\ pc' = "after_lennard_jones"
    /\ pos0' = pos
    /\ UNCHANGED << args, attrs, boundary, pos, vels, force, trajectory, runargs,
                    step, writer, file, calls, vels0, config >>

\* a call of velocity_verlet_integrate
VelocityVerlet ==
    /\ pc = "call_velocity_verlet"
    /\ LET out == velocity_verlet_integrate(pos, vels, args.force_func, args.mass, args.dt)
       IN  /\ pos' = out.pos
           /\ vels' = out.vels
           /\ exc' = out.exc
           /\ pc' = "after_velocity_verlet"
    /\ pos0' = pos
    /\ vels0' = vels
    /\ UNCHANGED << args, attrs, boundary, force, trajectory, runargs, step, writer,
                    file, calls, config, ret >>

\* compute_kinetic_energy
compute_kinetic_energy(mass, v, natoms, ndims) ==
    LET weighted == [n \in 1..natoms |-> [i \in 1..ndims |->
                        Mul(mass[n], Mul(v[n][i], v[n][i]))]]
    IN  Div(NpSum(Flat(weighted, natoms, ndims)), 2)

\* a number with as many significant bits as the format has
FullMantissa ==
    Pow2(MantissaBits) - 1

InitEuler ==
    /\ Caller("call_euler")
    /\ \E s \in LibraryShapes :
          /\ pos \in Arrays(s[1], s[2], {0, 3})
          /\ vels \in Arrays(s[1], s[2], {-2, 1, FullMantissa})
          /\ force \in Arrays(s[1], s[2], {-2, 0, 3})
          /\ args \in [mass : [1..s[1] -> {1, 2}], dt : {0, 1, 3}]

\* a call of euler_integrate
Euler ==
    /\ pc = "call_euler"
    /\ LET new == euler_integrate(pos, vels, force, args.mass, args.dt)
       IN  pos' = new.pos /\ vels' = new.vels
    /\ pos0' = pos
    /\ vels0' = vels
    /\ pc' = "after_euler"
    /\ UNCHANGED << args, attrs, boundary, force, trajectory, runargs, step, writer,
                    file, exc, calls, config, ret >>

InitTemperature ==
    /\ Caller("call_temperature")
    /\ \E s \in LibraryShapes :
          /\ vels \in Arrays(s[1], s[2], {-4, 0, 4})
          /\ args \in [mass : [1..s[1] -> {1, 3}], natoms : {s[1]}, ndims : {s[2]}]
    /\ pos = << >>
    /\ force = << >>

\* a call of compute_temperature
Temperature ==
    /\ pc = "call_temperature"
    /\ ret' = compute_temperature(args.mass, vels, args.natoms, args.ndims)
    /\ vels0' = vels
    /\ pc' = "after_temperature"
    /\ UNCHANGED << args, attrs, boundary, pos, vels, force, trajectory, runargs,
                    step, writer, file, exc, calls, pos0, config >>

MaxData == 2

MaxWindow == 3

\* data[first] + ... + data[last]
RECURSIVE SliceSum(_, _, _)
SliceSum(data, first, last) ==
    IF first > last THEN 0 ELSE data[first] + SliceSum(data, first + 1, last)

\* running_average: np.convolve(data, np.ones(window)/window, mode='valid').
\* np.ones raises for a negative window and np.convolve for an empty argument;
\* np.convolve exchanges its arguments when the second is the longer one, and
\* 'valid' keeps the positions where the shorter one lies inside the longer one.
\* The weights 1/window lie below the spacing of the scaled-down numbers, so an
\* output element is the exact weighted sum rounded once.
running_average(data, window) ==
    IF window < 0
    THEN [ret |-> << >>, exc |-> Raised("ValueError", "negative dimensions are not allowed")]
    ELSE IF Len(data) = 0 \/ window = 0
    THEN [ret |-> << >>, exc |-> Raised("ValueError", "cannot be empty")]
    ELSE IF window <= Len(data)
    THEN [ret |-> [k \in 1..(Len(data) - window + 1) |->
                     RoundRat(SliceSum(data, k, k + window - 1), window)],
          exc |-> NoException]
    ELSE [ret |-> [k \in 1..(window - Len(data) + 1) |->
                     RoundRat(SliceSum(data, 1, Len(data)), window)],
          exc |-> NoException]

InitRunningAverage ==
    /\ Caller("call_running_average")
    /\ \E n \in 0..MaxData :
          args \in [data : [1..n -> {-2, 0, 4}], window : -1..MaxWindow]
    /\ pos = << >>
    /\ vels = << >>
    /\ force = << >>

\* a call of running_average
RunningAverage ==
    /\ pc = "call_running_average"
    /\ LET out == running_average(args.data, args.window)
       IN  ret' = out.ret /\ exc' = out.exc
    /\ pc' = "after_running_average"
    /\ UNCHANGED << args, attrs, boundary, pos, vels, force, trajectory, runargs,
                    step, writer, file, calls, pos0, vels0, config >>

InitLibrary ==
    \/ InitLennardJones
    \/ InitVelocityVerlet
    \/ InitEuler
    \/ InitTemperature
    \/ InitRunningAverage

NextLibrary ==
    \/ LennardJones
    \/ VelocityVerlet
    \/ Euler
    \/ Temperature
    \/ RunningAverage

SpecLibrary ==
    InitLibrary /\ [][NextLibrary]_vars

\* C11: a call of compute_lennard_jones_force or of velocity_verlet_integrate
\* raises NotImplementedError whatever its arguments: nothing is returned (no
\* force array, zero or other), and velocity_verlet_integrate leaves the position
\* and velocity arrays as they were.
C11_Unimplemented ==
    /\ pc = "after_lennard_jones" =>
          /\ exc.type = "NotImplementedError"
          /\ ret = << >>
          /\ pos = pos0
    /\ pc = "after_velocity_verlet" =>
          /\ exc.type = "NotImplementedError"
          /\ ret = << >>
          /\ pos = pos0
          /\ vels = vels0

C11_Witness ==
    /\ pc = "after_lennard_jones"
    /\ exc.type = "NotImplementedError"
    /\ pos # Zeros(1, 1)
    /\ args.cutoff = 3

\* an integer the number format holds without rounding
Exact(x) ==
    Mag(x) <= MaxFinite /\ fl(x) = x

\* C12: euler_integrate leaves, per particle and axis, position = old position +
\* old velocity * dt (the velocity from before the call) and velocity = old
\* velocity + (force / mass) * dt, wherever these values are numbers of the
\* format; with zero force the velocities, and so the kinetic energy, are unchanged
\* and the position has advanced by velocity * dt.
C12_EulerUpdates ==
    pc = "after_euler" =>
        /\ \A n \in DOMAIN pos : \A i \in DOMAIN pos[n] :
              LET p  == pos0[n][i]
                  v  == vels0[n][i]
                  f  == force[n][i]
                  m  == args.mass[n]
                  dt == args.dt
              IN  /\ (Exact(v * dt) /\ Exact(p + v * dt)) => pos[n][i] = p + v * dt
                  /\ ((f * dt) % m = 0 /\ Exact(f * dt) /\ Exact(v + (f * dt) \div m)) =>
                        (vels[n][i] - v) * m = f * dt
                  /\ f = 0 => vels[n][i] = v
        /\ force = Zeros(Len(pos), Len(pos[1])) =>
              /\ vels = vels0
              /\ compute_kinetic_energy(args.mass, vels, Len(pos), Len(pos[1]))
                    = compute_kinetic_energy(args.mass, vels0, Len(pos), Len(pos[1]))

C12_Witness ==
    /\ pc = "after_euler"
    /\ Len(pos) = 2
    /\ args.dt = 3
    /\ args.mass[1] = 2
    /\ force[1][1] = -2 /\ vels0[1][1] = 1 /\ vels[1][1] = -2
    /\ pos0[1][1] = 3 /\ pos[1][1] = 6
    /\ force[2][1] = 0 /\ vels[2][1] = vels0[2][1]

---------------------------------------------------------------------------
(* Further properties of the driver, checked under Spec *)

\* C13: right after construction with natoms >= 1, whatever was drawn, the total
\* momentum sum_n mass[n] * vels[n] is zero on every axis and every position lies
\* within the bounds of the box on every axis.
C13_InitialState ==
    (pc = "constructed" /\ args.natoms >= 1) =>
        \A i \in 1..Len(args.box) :
            /\ compute_total_momentum(MassArray(args), vels, args.natoms, i) = 0
            /\ \A n \in 1..args.natoms :
                  /\ Le(BoxMin(args.box, i), pos[n][i])
                  /\ Le(pos[n][i], BoxMax(args.box, i))

C13_Witness ==
    /\ pc = "constructed"
    /\ args.natoms = 2
    /\ vels[1][1] > 0
    /\ vels[2][1] < 0
    /\ pos[1][1] # pos[2][1]

\* the number of frames a run of nsteps steps dumps
FrameCount(nsteps, dump_frequency) ==
    IF dump_frequency = 0 THEN 0 ELSE nsteps \div dump_frequency

\* C18: when run() is given an output file, a file existing at the path is
\* removed before the first step and no content from before the run is in the
\* file at any later point; when run() has returned the file holds exactly
\* floor(nsteps / dump_frequency) frames, all of this run, and no file exists
\* at the path when that count is 0, whether or not one existed before.
C18_OutputFileFresh ==
    (writer /\ pc \notin {"new", "constructed"}) =>
        /\ ~file.old
        /\ (pc = LoopBody[1] /\ step = 1) => ~file.exists
        /\ pc = "done" =>
              /\ Len(file.frames) = FrameCount(runargs.nsteps, runargs.dump_frequency)
              /\ \A k \in 1..Len(file.frames) :
                    /\ file.frames[k].timestep = k * runargs.dump_frequency
                    /\ file.frames[k].natoms = args.natoms
              /\ file.exists <=> Len(file.frames) > 0

\* a run given the path of an existing file has returned without dumping a
\* frame, and the file is gone
C18_Witness ==
    /\ pc = "done"
    /\ writer
    /\ file.removed
    /\ runargs.nsteps >= 1
    /\ FrameCount(runargs.nsteps, runargs.dump_frequency) = 0
    /\ ~file.exists

\* a run given the path of an existing file has returned after dumping frames,
\* and the file holds these only
C18_WitnessFrames ==
    /\ pc = "done"
    /\ writer
    /\ file.removed
    /\ Len(file.frames) >= 2
    /\ ~file.old

---------------------------------------------------------------------------
(* Properties of the observables, checked under SpecLibrary *)

RECURSIVE IntSum(_, _)
IntSum(xs, k) ==
    IF k = 0 THEN 0 ELSE xs[k] + IntSum(xs, k - 1)

\* sum of the masses, and the mass-weighted sum of the velocities on axis i
TotalMass(mass, natoms) ==
    IntSum(mass, natoms)

WeightedVelocity(mass, v, natoms, i) ==
    IntSum([n \in 1..natoms |-> mass[n] * v[n][i]], natoms)

\* TotalMass^2 times sum_n mass[n] * |v[n] - v_cm|^2, with v_cm the mass-weighted
\* mean velocity WeightedVelocity / TotalMass, in exact arithmetic
ScaledTwiceKE(mass, v, natoms, ndims) ==
    LET M == TotalMass(mass, natoms)
        sq(n, i) == (v[n][i] * M - WeightedVelocity(mass, v, natoms, i))
                    * (v[n][i] * M - WeightedVelocity(mass, v, natoms, i))
    IN  IntSum([n \in 1..natoms |->
                   mass[n] * IntSum([i \in 1..ndims |-> sq(n, i)], ndims)], natoms)

\* C14: compute_temperature(mass, vels) is 2*KE / (D*N*k_B) with
\* KE = 0.5 * sum_n mass[n] * |v[n] - v_cm|^2 and v_cm the mass-weighted mean
\* velocity, for every mass array, unequal masses included.
C14_MassWeightedTemperature ==
    pc = "after_temperature" =>
        ret * args.ndims * args.natoms * BOLTZMANN
            * TotalMass(args.mass, args.natoms) * TotalMass(args.mass, args.natoms)
          = ScaledTwiceKE(args.mass, vels, args.natoms, args.ndims)

\* C15: for every data sequence and every window >= 1, running_average returns
\* len(data) - window + 1 elements, never more than the input has, the k-th
\* being the mean of the window input elements from the k-th on.
C15_RunningAverageLength ==
    (pc = "after_running_average" /\ args.window >= 1) =>
        /\ exc = NoException
        /\ Len(ret) = Len(args.data) - args.window + 1
        /\ Len(ret) <= Len(args.data)
        /\ \A k \in 1..Len(ret) :
              ret[k] = RoundRat(SliceSum(args.data, k, k + args.window - 1),
                                args.window)

---------------------------------------------------------------------------
(* Further properties of the boundary policies, checked under SpecBoundary *)

\* the input position of particle n meets both conditions of axis i
BothBounds(n, i) ==
    /\ Le(pos0[n][i], BoxMin(args.box, i))
    /\ Ge(pos0[n][i], BoxMax(args.box, i))

\* C16 as claimed: in ReflectiveBoundary.apply a position that is both <= min and
\* >= max of its axis ends as the lower branch leaves it: at min, with a velocity
\* component >= 0.
C16_LowerBranchWins ==
    (Applied /\ boundary = "ReflectiveBoundary") =>
        \A n \in 1..args.natoms : \A i \in 1..Len(args.box) :
            BothBounds(n, i) =>
                /\ pos[n][i] = BoxMin(args.box, i)
                /\ vels[n][i] >= 0

\* C16 as amended: such a position ends as the upper branch, which runs last,
\* leaves it: at max, with the velocity component -|v| (<= 0).
C16_UpperBranchLast ==
    (Applied /\ boundary = "ReflectiveBoundary") =>
        \A n \in 1..args.natoms : \A i \in 1..Len(args.box) :
            BothBounds(n, i) =>
                /\ pos[n][i] = BoxMax(args.box, i)
                /\ vels[n][i] = -Mag(vels0[n][i])
                /\ vels[n][i] <= 0

C16_Witness ==
    /\ Applied
    /\ boundary = "ReflectiveBoundary"
    /\ args.natoms = 2
    /\ BoxMin(args.box, 1) > BoxMax(args.box, 1)
    /\ BothBounds(1, 1) /\ BothBounds(2, 1)
    /\ vels0[1][1] > 0 /\ vels[1][1] < 0
    /\ vels0[2][1] < 0 /\ vels[2][1] < 0
    /\ pos[1][1] = BoxMax(args.box, 1)

---------------------------------------------------------------------------
(* Repeated runs: a caller calls run() again on a simulation whose run() has
   returned.  One particle on one axis with the working thermostat. *)

MaxRuns == 2

RerunCtorArgs ==
    { a \in CtorArgs :
        /\ a.natoms = 1
        /\ a.box = << <<0, 4>> >>
        /\ a.temperature = 2
        /\ a.dt = 1
        /\ Len(a.boundary_type) > 5 }

RerunArgs ==
    [nsteps         : 0..MaxShort,
     output_file    : {"None", "traj.dump"},
     dump_frequency : {0, 1},
     verbose        : BOOLEAN]

\* a caller calls run(), for the first time or again after a run that returned
RunAgain ==
    /\ pc \in {"constructed", "done"}
    /\ calls.run < MaxRuns
    /\ \E ra \in RerunArgs : RunBeginWith(ra)

InitRerun ==
    /\ Init
    /\ args \in RerunCtorArgs

NextRerun ==
    \/ Construct
    \/ RunAgain
    \/ ComputeForce
    \/ Integrate
    \/ ApplyBoundary
    \/ Observe
    \/ Dump
    \/ Progress
    \/ Return

SpecRerun ==
    InitRerun /\ [][NextRerun]_vars

\* a run() call made after an earlier one returned
LaterRun ==
    calls.run >= 2 /\ pc \notin {"new", "constructed"}

\* C17: once run() has returned, a later run(n) with n >= 1 never reaches its
\* return statement: it ends with an AttributeError, and the time and
\* temperature samples the earlier call returned are neither extended nor
\* altered
C17_RerunFails ==
    (LaterRun /\ runargs.nsteps >= 1) =>
        /\ pc \notin {"return", "done"}
        /\ pc = "raised" => exc.type = "AttributeError"
        /\ trajectory = ret
        /\ ret.kind = "ndarray"

\* a second run(n >= 1) has failed after the first run returned samples, and
\* its step() moved the particle
C17_Witness ==
    /\ LaterRun
    /\ runargs.nsteps >= 1
    /\ pc = "raised"
    /\ exc.type = "AttributeError"
    /\ Len(ret.time) >= 1
    /\ trajectory = ret
    /\ calls.step > Len(ret.time)

=============================================================================
